---- MODULE Spec2Model ----
(***************************************************************************)
(* Model of the two Python fixture scripts of the repository:              *)
(*   bin/generate_token.py     - builds and signs test JWT access tokens   *)
(*   tests/create_test_excel.py - writes a one-row import workbook         *)
(* A host runs one script (or one importing caller) at a time; the host's  *)
(* clock, its local time zone and its installed libraries are environment. *)
(***************************************************************************)
EXTENDS Integers, Sequences, FiniteSets, TLC

VARIABLES
    clock,          \* the host's UTC wall clock, whole seconds since 1970-01-01
    tz,             \* the host's local time zone (fixed for a behaviour)
    tmp_file,       \* contents of /tmp/test_import.xlsx (persists across runs)
    script,         \* the process that runs: "none" when the host is idle
    lib_installed,  \* whether the library the running process imports exists
    pc,             \* the running process's position
    stdout,         \* the lines the running process has printed
    stderr,         \* the interpreter's traceback lines of the running process
    exit_status,    \* -1 while running, otherwise the process's exit status
    calls,          \* the token-building calls the running process has made
    ws              \* the open worksheet's rows (create_test_excel.py)

vars == <<clock, tz, tmp_file, script, lib_installed, pc, stdout, stderr,
          exit_status, calls, ws>>

--------------------------------------------------------------------------
(* Bounds of the model *)

MaxTicks == 3
MaxUserId == 2
MaxScopeId == 1
MaxJti == 3

--------------------------------------------------------------------------
(* Python values: None, int and str, tagged so that 1 and "1" differ *)

PyNone == [tag |-> "none", int |-> 0, str |-> ""]
PyInt(n) == [tag |-> "int", int |-> n, str |-> ""]
PyStr(s) == [tag |-> "str", int |-> 0, str |-> s]

\* str(v) of the builtin types used here
py_str(v) ==
    IF v.tag = "int" THEN PyStr(ToString(v.int))
    ELSE IF v.tag = "str" THEN v
    ELSE PyStr("None")

EmptyDict == [k \in {} |-> PyNone]

\* d[key] = value on a dict
dict_set(d, key, value) ==
    [k \in (DOMAIN d) \cup {key} |-> IF k = key THEN value ELSE d[k]]

--------------------------------------------------------------------------
(* Time: naive datetimes are whole seconds on the wall since 1970-01-01.   *)
(* Clock readings are whole seconds, so int() of a timestamp has no        *)
(* fraction to drop.                                                       *)

HOUR == 60 * 60
DAY == 24 * HOUR
T0 == 20 * DAY
TickStep == 6 * HOUR
Far == 10000 * DAY

\* A zone: standard offset, and the UTC instants between which the offset is
\* one hour more (daylight saving).  Berlin-like: clocks go forward at
\* T0+29h; New-York-like: clocks go back at T0+35h.
ZoneUTC == [name |-> "UTC", std |-> 0, dst_from |-> 0, dst_to |-> 0]
ZoneBerlin == [name |-> "Europe/Berlin", std |-> HOUR,
               dst_from |-> T0 + 29 * HOUR, dst_to |-> Far]
ZoneNewYork == [name |-> "America/New_York", std |-> 0 - 5 * HOUR,
                dst_from |-> 0, dst_to |-> T0 + 35 * HOUR]
Zones == {ZoneUTC, ZoneBerlin, ZoneNewYork}

\* the local zone's UTC offset at the instant u
utcoffset(z, u) ==
    IF z.dst_from <= u /\ u < z.dst_to THEN z.std + HOUR ELSE z.std

\* time.localtime(u) as naive wall seconds
local(u) == u + utcoffset(tz, u)

max_fold_seconds == 24 * HOUR

\* datetime._mktime of a naive datetime t with fold = 0: solve t = local(u)
mktime(t) ==
    LET a == local(t) - t
        u1 == t - a
        t1 == local(u1)
        b == IF t1 = t
             THEN local(u1 - max_fold_seconds) - (u1 - max_fold_seconds)
             ELSE t1 - u1
        u2 == t - b
        t2 == local(u2)
    IN  IF t1 = t /\ a = b THEN u1
        ELSE IF t2 = t THEN u2
        ELSE IF t1 = t THEN u1
        ELSE IF u1 > u2 THEN u1 ELSE u2

\* datetime.utcnow(): the UTC wall reading as a naive datetime
utcnow == clock

\* timedelta(hours=h) in seconds
timedelta_hours(h) == h * HOUR

\* int(dt.timestamp()) of a naive datetime: it is read as LOCAL time
timestamp(dt) == mktime(dt)

--------------------------------------------------------------------------
(* JSON as PyJWT serialises it: a number is its decimal digits, a string   *)
(* its characters                                                          *)

RECURSIVE Digits(_)
Digits(n) == IF n < 10 THEN <<n>> ELSE Append(Digits(n \div 10), n % 10)

RECURSIVE Number(_)
Number(ds) ==
    IF Len(ds) = 0 THEN 0
    ELSE 10 * Number(SubSeq(ds, 1, Len(ds) - 1)) + ds[Len(ds)]

JNull == [kind |-> "null", neg |-> FALSE, digits |-> <<>>, chars |-> ""]
JNumber(n) ==
    [kind |-> "number", neg |-> n < 0,
     digits |-> Digits(IF n < 0 THEN 0 - n ELSE n), chars |-> ""]
JString(s) == [kind |-> "string", neg |-> FALSE, digits |-> <<>>, chars |-> s]

\* a serialiser that writes every value as a string (json.dumps(default=str))
to_json_stringly(v) ==
    IF v.tag = "int" THEN JString(ToString(v.int))
    ELSE IF v.tag = "str" THEN JString(v.str)
    ELSE JNull

to_json(v) ==
    IF v.tag = "int" THEN JNumber(v.int)
    ELSE IF v.tag = "str" THEN JString(v.str)
    ELSE JNull

from_json(j) ==
    IF j.kind = "number"
    THEN PyInt(IF j.neg THEN 0 - Number(j.digits) ELSE Number(j.digits))
    ELSE IF j.kind = "string" THEN PyStr(j.chars)
    ELSE PyNone

json_dumps(d) == [k \in DOMAIN d |-> to_json(d[k])]
json_loads(o) == [k \in DOMAIN o |-> from_json(o[k])]

\* base64url of a segment, and its inverse
b64encode(x) == [b64 |-> x]
b64decode(y) == y.b64

\* HMAC-SHA256 as an ideal MAC: two tags agree only for the same key and
\* the same message
hmac_sha256(key, msg) == [key |-> key, msg |-> msg]

--------------------------------------------------------------------------
(* The signer: jwt.encode, and the inverse a consuming service applies *)

\* the refresh audience's secret
REFRESH_SECRET == "super-secret-refresh"

\* one secret pasted for both audiences
SECRET_shared == REFRESH_SECRET

\* ACCESS_SECRET of docker-compose.yml
SECRET == "super-secret-access"

\* a signer that stamps a per-call nonce into the header
jwt_encode_salted(payload, key, algorithm) ==
    LET header == b64encode([alg |-> algorithm, typ |-> "JWT",
                             nonce |-> Len(calls)])
        body == b64encode(json_dumps(payload))
    IN  [header |-> header, payload |-> body,
         signature |-> hmac_sha256(key, <<header, body>>)]

\* jwt.encode(payload, key, algorithm): header.payload.signature
jwt_encode(payload, key, algorithm) ==
    LET header == b64encode([alg |-> algorithm, typ |-> "JWT"])
        body == b64encode(json_dumps(payload))
    IN  [header |-> header, payload |-> body,
         signature |-> hmac_sha256(key, <<header, body>>)]

\* verify/decode(token, key): check the signature, then parse the payload
jwt_decode(token, key) ==
    IF /\ b64decode(token.header).alg = "HS256"
       /\ token.signature = hmac_sha256(key, <<token.header, token.payload>>)
    THEN [ok |-> TRUE, error |-> "",
          claims |-> json_loads(b64decode(token.payload))]
    ELSE [ok |-> FALSE, error |-> "InvalidSignatureError", claims |-> EmptyDict]

--------------------------------------------------------------------------
(* bin/generate_token.py *)

\* what a call returns: (token, payload), or the exception it raised
Returned(token, payload) == [raised |-> "", token |-> token, payload |-> payload]

\* what a call that raised returns
NoToken == jwt_encode(EmptyDict, "", "none")
Raised(exc) == [raised |-> exc, token |-> NoToken, payload |-> EmptyDict]

Roles == {"superadmin", "curator", "operator"}

\* a scope check by truthiness (if university_id:) instead of "is not None"
add_scope_truthy(payload, key, value) ==
    IF value # PyNone /\ value # PyInt(0)
    THEN dict_set(payload, key, value) ELSE payload

\* if <scope id> is not None: payload[<key>] = <scope id>
add_scope(payload, key, value) ==
    IF value # PyNone THEN dict_set(payload, key, value) ELSE payload

\* a one-hour window
token_lifetime_1h == timedelta_hours(1)

\* timedelta(hours=24)
token_lifetime == timedelta_hours(24)

\* lines 26-43: the claim set
claim_set(role, user_id, email, university_id, branch_id, faculty_id) ==
    LET now == utcnow
        exp == now + token_lifetime
        payload == [k \in {"sub", "email", "role", "exp", "iat"} |->
                      CASE k = "sub" -> py_str(user_id)
                        [] k = "email" -> email
                        [] k = "role" -> role
                        [] k = "exp" -> PyInt(timestamp(exp))
                        [] k = "iat" -> PyInt(timestamp(now))]
    IN  add_scope(add_scope(add_scope(payload,
                "university_id", university_id),
                "branch_id", branch_id),
                "faculty_id", faculty_id)

\* a builder that also stamps a token identifier, as the refresh builder does
generate_token_jti(role, user_id, email, university_id, branch_id, faculty_id) ==
    LET payload == dict_set(claim_set(role, user_id, email, university_id,
                                      branch_id, faculty_id),
                            "jti", PyStr(ToString(Len(calls))))
    IN  Returned(jwt_encode(payload, SECRET, "HS256"), payload)

\* a builder that rejects roles outside the enumeration
generate_token_validating(role, user_id, email, university_id, branch_id, faculty_id) ==
    IF role.str \in Roles
    THEN LET payload == claim_set(role, user_id, email, university_id,
                                  branch_id, faculty_id)
         IN  Returned(jwt_encode(payload, SECRET, "HS256"), payload)
    ELSE Raised("ValueError")

generate_token(role, user_id, email, university_id, branch_id, faculty_id) ==
    LET payload == claim_set(role, user_id, email, university_id,
                             branch_id, faculty_id)
        token == jwt_encode(payload, SECRET, "HS256")
    IN  Returned(token, payload)

\* the parameters' defaults
Defaults ==
    [role |-> PyStr("superadmin"), user_id |-> PyInt(1),
     email |-> PyStr("test@example.com"), university_id |-> PyNone,
     branch_id |-> PyNone, faculty_id |-> PyNone]

\* the keyword arguments a dict of main() passes: every key but 'name'
kwargs(example) ==
    [k \in DOMAIN Defaults |->
        IF k \in DOMAIN example THEN example[k] ELSE Defaults[k]]

examples ==
    << [name |-> PyStr("Superadmin"), role |-> PyStr("superadmin"),
        user_id |-> PyInt(1), email |-> PyStr("superadmin@example.com")],
       [name |-> PyStr("Curator (University 1)"), role |-> PyStr("curator"),
        user_id |-> PyInt(2), email |-> PyStr("curator@example.com"),
        university_id |-> PyInt(1)],
       [name |-> PyStr("Operator (University 1)"), role |-> PyStr("operator"),
        user_id |-> PyInt(3), email |-> PyStr("operator@example.com"),
        university_id |-> PyInt(1)] >>

\* one call as the process's history keeps it: the arguments, the clock
\* reading at the call, and what came back
CallRecord(audience, args, result) ==
    [audience |-> audience, args |-> args, now |-> clock,
     raised |-> result.raised, token |-> result.token,
     payload |-> result.payload]

call_generate_token(args) ==
    CallRecord("access", args,
               generate_token(args.role, args.user_id, args.email,
                              args.university_id, args.branch_id,
                              args.faculty_id))

--------------------------------------------------------------------------
(* The refresh-class builder of the second token script *)

REFRESH_TTL == 7 * DAY

\* uuid4 as a string: the j-th identifier of the pool
uuid(j) == PyStr(ToString(j))

generate_refresh_token(role, user_id, email, jti) ==
    LET now == clock
        p == [k \in {"sub", "email", "role", "exp", "iat", "jti"} |->
                CASE k = "sub" -> py_str(user_id)
                  [] k = "email" -> email
                  [] k = "role" -> role
                  [] k = "exp" -> PyInt(now + REFRESH_TTL)
                  [] k = "iat" -> PyInt(now)
                  [] k = "jti" -> jti]
    IN  Returned(jwt_encode(p, REFRESH_SECRET, "HS256"), p)

--------------------------------------------------------------------------
(* tests/create_test_excel.py *)

headers ==
    << "Phone1", "MaxID", "INN_Ref", "FOIV", "OrgName", "Branch",
       "INN", "KPP", "Faculty", "Course", "Group", "ChatName",
       "Phone2", "FileName", "ChatID", "Link", "AddUser", "AddAdmin" >>

\* the Cyrillic cells are written here in Latin transliteration
data_row ==
    << "79884753064", "496728250", "105014177", "Minobrnauki Rossii",
       "MGTU", "Golovnoy filial", "105014177", "10501001",
       "Politekhnicheskiy kolledzh MGTU", "2", "Kolledzh IP-22",
       "Kolledzh IP-22 (2024 OFO MGTU", "79884753064", "file.xlsx",
       "-69257108032233", "https://max.ru/join/test", "ISTINA", "ISTINA" >>

\* an append that inserts the row at the top of the sheet
ws_append_front(sheet, row) == <<[c \in 1..Len(row) |-> row[c]]>> \o sheet

\* ws.append(row): the row becomes the sheet's next row, cell by cell
ws_append(sheet, row) == Append(sheet, [c \in 1..Len(row) |-> row[c]])

\* wb.save(path): the file's contents become the workbook's sheet
wb_save(sheet) == [exists |-> TRUE, rows |-> sheet]

NoFile == [exists |-> FALSE, rows |-> <<>>]
StaleFile == [exists |-> TRUE, rows |-> <<headers>>]

--------------------------------------------------------------------------
(* The host *)

TokenScripts == {"generate_token.py", "import generate_token",
                 "refresh_token.py"}

FirstPc(s) ==
    CASE s = "generate_token.py" -> "import_jwt"
      [] s = "import generate_token" -> "import_jwt"
      [] s = "refresh_token.py" -> "import_jwt"
      [] s = "create_test_excel.py" -> "import_openpyxl"

Running == script # "none" /\ exit_status = -1

Idle ==
    /\ clock = T0
    /\ tz \in Zones
    /\ script = "none"
    /\ lib_installed = TRUE
    /\ pc = "none"
    /\ stdout = <<>>
    /\ stderr = <<>>
    /\ exit_status = -1
    /\ calls = <<>>
    /\ ws = <<>>

Init == Idle /\ tmp_file = NoFile

InitExcel == Idle /\ tmp_file \in {NoFile, StaleFile}

\* time passes
Tick ==
    /\ clock < T0 + MaxTicks * TickStep
    /\ clock' = clock + TickStep
    /\ UNCHANGED <<tz, tmp_file, script, lib_installed, pc, stdout, stderr,
                   exit_status, calls, ws>>

\* the operator starts a script on a host that has, or lacks, its library
Start(scripts) ==
    /\ script = "none"
    /\ \E s \in scripts, installed \in BOOLEAN :
          /\ script' = s
          /\ lib_installed' = installed
          /\ pc' = FirstPc(s)
    /\ UNCHANGED <<clock, tz, tmp_file, stdout, stderr, exit_status, calls, ws>>

\* the exited process is reaped: its output and status are gone
Reap ==
    /\ script # "none"
    /\ exit_status # -1
    /\ script' = "none"
    /\ lib_installed' = TRUE
    /\ pc' = "none"
    /\ stdout' = <<>>
    /\ stderr' = <<>>
    /\ exit_status' = -1
    /\ UNCHANGED <<clock, tz, tmp_file, calls, ws>>

\* sys.exit(n) / exit(n) / falling off the end of the script: the process
\* ends with status n and its memory is gone
Exit(n) ==
    /\ exit_status' = n
    /\ pc' = "exited"
    /\ calls' = <<>>
    /\ ws' = <<>>

\* an uncaught exception: the interpreter prints a traceback and exits 1
Uncaught(exc) ==
    /\ stderr' = stderr \o <<"Traceback (most recent call last):", exc>>
    /\ Exit(1)

(* generate_token.py, line 6: the module-level import *)
ImportJwt ==
    /\ Running
    /\ pc = "import_jwt"
    /\ IF lib_installed
       THEN pc' = "name_guard" /\ UNCHANGED <<stderr, exit_status, calls, ws>>
       ELSE Uncaught("ModuleNotFoundError: No module named 'jwt'")
    /\ UNCHANGED <<clock, tz, tmp_file, script, lib_installed, stdout>>

(* line 91: if __name__ == "__main__" *)
NameGuard ==
    /\ Running
    /\ pc = "name_guard"
    /\ pc' = CASE script = "generate_token.py" -> "probe"
                [] script = "import generate_token" -> "imported"
                [] script = "refresh_token.py" -> "issue"
    /\ UNCHANGED <<clock, tz, tmp_file, script, lib_installed, stdout, stderr,
                   exit_status, calls, ws>>

(* lines 92-97: the probe inside the guard *)
Probe ==
    /\ Running
    /\ pc = "probe"
    /\ IF lib_installed
       THEN pc' = "main" /\ UNCHANGED <<stdout, exit_status, calls, ws>>
       ELSE /\ stdout' = stdout \o <<"Error: PyJWT library not installed",
                                     "Install it with: pip install PyJWT">>
            /\ Exit(1)
    /\ UNCHANGED <<clock, tz, tmp_file, script, lib_installed, stderr>>

(* line 50: main() prints its banner *)
MainBanner ==
    /\ Running
    /\ pc = "main"
    /\ stdout' = Append(stdout, "=== JWT Token Generator ===")
    /\ pc' = "loop"
    /\ UNCHANGED <<clock, tz, tmp_file, script, lib_installed, stderr,
                   exit_status, calls, ws>>

(* lines 76-89: one round of the loop over the examples *)
MainExample ==
    /\ Running
    /\ pc = "loop"
    /\ Len(calls) < Len(examples)
    /\ LET example == examples[Len(calls) + 1]
           c == call_generate_token(kwargs(example))
       IN  /\ calls' = Append(calls, c)
           /\ stdout' = stdout \o
                 << example.name.str,
                    "   Role: " \o c.payload["role"].str,
                    "   User ID: " \o c.payload["sub"].str,
                    "   Email: " \o c.payload["email"].str >>
                 \o (IF "university_id" \in DOMAIN c.payload
                     THEN << "   University ID: "
                             \o ToString(c.payload["university_id"].int) >>
                     ELSE << >>)
                 \o << "   Token:", "   Test command:" >>
    /\ UNCHANGED <<clock, tz, tmp_file, script, lib_installed, pc, stderr,
                   exit_status, ws>>

(* the loop is over: main() returns and the script ends *)
MainReturn ==
    /\ Running
    /\ pc = "loop"
    /\ Len(calls) = Len(examples)
    /\ Exit(0)
    /\ UNCHANGED <<clock, tz, tmp_file, script, lib_installed, stdout, stderr>>

(* a caller that imported the module calls generate_token *)
Call(argsets) ==
    /\ Running
    /\ pc = "imported"
    /\ calls = <<>>
    /\ \E args \in argsets : calls' = <<call_generate_token(args)>>
    /\ UNCHANGED <<clock, tz, tmp_file, script, lib_installed, pc, stdout,
                   stderr, exit_status, ws>>

(* ... and calls it once more with the same arguments *)
CallAgain ==
    /\ Running
    /\ pc = "imported"
    /\ Len(calls) = 1
    /\ calls' = Append(calls, call_generate_token(calls[1].args))
    /\ UNCHANGED <<clock, tz, tmp_file, script, lib_installed, pc, stdout,
                   stderr, exit_status, ws>>

CallerExit ==
    /\ Running
    /\ pc = "imported"
    /\ Exit(0)
    /\ UNCHANGED <<clock, tz, tmp_file, script, lib_installed, stdout, stderr>>

(* the refresh script issues a refresh token with a fresh identifier *)
RefreshIssue(roles, user_id, email) ==
    /\ Running
    /\ pc = "issue"
    /\ Len(calls) < 2
    /\ \E role \in roles, j \in 1..MaxJti :
          /\ \A n \in 1..Len(calls) : calls[n].payload["jti"] # uuid(j)
          /\ LET args == [Defaults EXCEPT !.role = role, !.user_id = user_id,
                                          !.email = email]
             IN  calls' = Append(calls,
                    CallRecord("refresh", args,
                        generate_refresh_token(role, user_id, email, uuid(j))))
    /\ UNCHANGED <<clock, tz, tmp_file, script, lib_installed, pc, stdout,
                   stderr, exit_status, ws>>

RefreshExit ==
    /\ Running
    /\ pc = "issue"
    /\ Exit(0)
    /\ UNCHANGED <<clock, tz, tmp_file, script, lib_installed, stdout, stderr>>

(* create_test_excel.py, lines 4-8: the import probe *)
ImportOpenpyxl ==
    /\ Running
    /\ pc = "import_openpyxl"
    /\ IF lib_installed
       THEN pc' = "workbook" /\ UNCHANGED <<stdout, exit_status, calls, ws>>
       ELSE /\ stdout' = Append(stdout, "pip install openpyxl")
            /\ Exit(1)
    /\ UNCHANGED <<clock, tz, tmp_file, script, lib_installed, stderr>>

(* lines 11-12: wb = Workbook(); ws = wb.active *)
NewWorkbook ==
    /\ Running
    /\ pc = "workbook"
    /\ ws' = <<>>
    /\ pc' = "append_headers"
    /\ UNCHANGED <<clock, tz, tmp_file, script, lib_installed, stdout, stderr,
                   exit_status, calls>>

(* line 21: ws.append(headers) *)
AppendHeaders ==
    /\ Running
    /\ pc = "append_headers"
    /\ ws' = ws_append(ws, headers)
    /\ pc' = "append_data_row"
    /\ UNCHANGED <<clock, tz, tmp_file, script, lib_installed, stdout, stderr,
                   exit_status, calls>>

(* line 32: ws.append(data_row) *)
AppendDataRow ==
    /\ Running
    /\ pc = "append_data_row"
    /\ ws' = ws_append(ws, data_row)
    /\ pc' = "save"
    /\ UNCHANGED <<clock, tz, tmp_file, script, lib_installed, stdout, stderr,
                   exit_status, calls>>

(* line 35: wb.save("/tmp/test_import.xlsx") *)
Save ==
    /\ Running
    /\ pc = "save"
    /\ tmp_file' = wb_save(ws)
    /\ pc' = "print_created"
    /\ UNCHANGED <<clock, tz, script, lib_installed, stdout, stderr,
                   exit_status, calls, ws>>

(* line 36: the closing message, and the script ends *)
PrintCreated ==
    /\ Running
    /\ pc = "print_created"
    /\ stdout' = Append(stdout, "Test Excel file created: /tmp/test_import.xlsx")
    /\ Exit(0)
    /\ UNCHANGED <<clock, tz, tmp_file, script, lib_installed, stderr>>

--------------------------------------------------------------------------
(* The arguments callers pass *)

RoleStrings == Roles \cup {"guest"}
Emails == {"test@example.com", "operator@example.com"}
ScopeIds == {PyNone} \cup {PyInt(n) : n \in 0..MaxScopeId}

ArgSets ==
    [role : {PyStr(r) : r \in RoleStrings},
     user_id : {PyInt(n) : n \in 1..MaxUserId},
     email : {PyStr(e) : e \in Emails},
     university_id : ScopeIds, branch_id : ScopeIds, faculty_id : ScopeIds]

Next ==
    \/ Tick
    \/ Start(TokenScripts)
    \/ Reap
    \/ ImportJwt
    \/ NameGuard
    \/ Probe
    \/ MainBanner
    \/ MainExample
    \/ MainReturn
    \/ Call(ArgSets)
    \/ CallAgain
    \/ CallerExit
    \/ RefreshIssue({PyStr(r) : r \in Roles}, PyInt(1), PyStr("test@example.com"))
    \/ RefreshExit

Spec == Init /\ [][Next]_vars

NextExcel ==
    \/ Tick
    \/ Start({"create_test_excel.py"})
    \/ Reap
    \/ ImportOpenpyxl
    \/ NewWorkbook
    \/ AppendHeaders
    \/ AppendDataRow
    \/ Save
    \/ PrintCreated

SpecExcel == InitExcel /\ [][NextExcel]_vars

--------------------------------------------------------------------------
(* The claims *)

AccessCalls == {n \in 1..Len(calls) : calls[n].audience = "access"}
RefreshCalls == {n \in 1..Len(calls) : calls[n].audience = "refresh"}

ScopeKeys == {"university_id", "branch_id", "faculty_id"}
MandatoryKeys == {"sub", "email", "role", "iat", "exp"}

\* the UTC offsets the host's zone ever has
ZoneOffsets == {tz.std, tz.std + HOUR}

\* C1: in every claim set generate_token returned, each scope key is present
\* exactly when the caller passed a value other than None for it, and then
\* holds that value (0 included); no key holds None.
C1_ScopeKeysIffSupplied ==
    \A n \in AccessCalls :
        /\ calls[n].raised = ""
        /\ \A k \in ScopeKeys :
              /\ (k \in DOMAIN calls[n].payload) <=> (calls[n].args[k] # PyNone)
              /\ (k \in DOMAIN calls[n].payload)
                    => (calls[n].payload[k] = calls[n].args[k])
        /\ \A k \in DOMAIN calls[n].payload : calls[n].payload[k] # PyNone

\* C1 witness: a call that passed university_id=0 and omitted branch_id kept
\* the key university_id with value 0 and has no key branch_id.
C1_Witness ==
    \E n \in AccessCalls :
        /\ calls[n].args.university_id = PyInt(0)
        /\ calls[n].args.branch_id = PyNone
        /\ "university_id" \in DOMAIN calls[n].payload
        /\ calls[n].payload["university_id"] = PyInt(0)
        /\ "branch_id" \notin DOMAIN calls[n].payload

\* C2 (the claim as stated): in every claim set generate_token returned, exp
\* is strictly greater than iat and exp - iat is the validity duration, the
\* 24 hours of the builder.
C2_ExpMinusIatIsValidity ==
    \A n \in AccessCalls :
        /\ calls[n].payload["exp"].int > calls[n].payload["iat"].int
        /\ calls[n].payload["exp"].int - calls[n].payload["iat"].int
              = timedelta_hours(24)

Scenario ==
    [role |-> PyStr("operator"), user_id |-> PyInt(1),
     email |-> PyStr("operator@example.com"), university_id |-> PyInt(1),
     branch_id |-> PyNone, faculty_id |-> PyNone]

ScenarioClaims(iat, exp) ==
    [k \in {"sub", "email", "role", "iat", "exp", "university_id"} |->
        CASE k = "sub" -> PyStr("1")
          [] k = "email" -> PyStr("operator@example.com")
          [] k = "role" -> PyStr("operator")
          [] k = "iat" -> PyInt(iat)
          [] k = "exp" -> PyInt(exp)
          [] k = "university_id" -> PyInt(1)]

\* C3 (the claim as stated): the scenario call at reading T returns exactly
\* {sub:"1", email, role:"operator", iat:T, exp:T+3600, university_id:1}.
C3_ScenarioOneHour ==
    \A n \in AccessCalls :
        calls[n].args = Scenario
            => calls[n].payload = ScenarioClaims(calls[n].now, calls[n].now + 3600)

\* C3 (amended): the scenario call at clock reading T returns exactly the
\* mapping {sub:"1", email:"operator@example.com", role:"operator", iat:T-a,
\* exp:T+86400-b, university_id:1} for UTC offsets a, b of the host's zone
\* (on a UTC host iat:T and exp:T+86400); no other key is present.
C3_ScenarioTwentyFourHours ==
    \A n \in AccessCalls :
        calls[n].args = Scenario
            => /\ \E a \in ZoneOffsets, b \in ZoneOffsets :
                    calls[n].payload =
                        ScenarioClaims(calls[n].now - a,
                                       calls[n].now + 24 * 3600 - b)
               /\ tz = ZoneUTC
                    => calls[n].payload =
                          ScenarioClaims(calls[n].now, calls[n].now + 24 * 3600)

\* C3 witness: the scenario call has been made on a UTC host.
C3_Witness ==
    \E n \in AccessCalls :
        /\ calls[n].args = Scenario
        /\ tz = ZoneUTC
        /\ calls[n].payload["exp"].int = calls[n].now + 86400

\* C4: decoding a token generate_token returned, with the secret it was
\* signed with, succeeds and yields the payload returned beside it: the same
\* keys and values, sub the decimal string of user_id, and email, role and
\* the supplied scope ids as passed.
C4_DecodeReturnsPayload ==
    \A n \in AccessCalls :
        LET c == calls[n]
            d == jwt_decode(c.token, SECRET)
        IN  /\ d.ok
            /\ DOMAIN d.claims = DOMAIN c.payload
            /\ \A k \in DOMAIN c.payload : d.claims[k] = c.payload[k]
            /\ d.claims["sub"] = PyStr(ToString(c.args.user_id.int))
            /\ d.claims["email"] = c.args.email
            /\ d.claims["role"] = c.args.role
            /\ \A k \in ScopeKeys :
                  c.args[k] # PyNone
                    => k \in DOMAIN d.claims /\ d.claims[k] = c.args[k]

\* C4 witness: a token for a recognised role, user 2 and a supplied faculty
\* id decodes to a claim set with sub "2" and that faculty id.
C4_Witness ==
    \E n \in AccessCalls :
        /\ calls[n].args.role.str \in Roles
        /\ calls[n].args.user_id = PyInt(2)
        /\ calls[n].args.faculty_id = PyInt(1)
        /\ calls[n].args.university_id = PyNone
        /\ jwt_decode(calls[n].token, SECRET).ok
        /\ jwt_decode(calls[n].token, SECRET).claims["sub"] = PyStr("2")
        /\ jwt_decode(calls[n].token, SECRET).claims["faculty_id"] = PyInt(1)

\* C5: the two audiences' secrets differ, and a token of one audience never
\* verifies under the other audience's secret: decoding fails with a
\* signature error and returns no claim set.
C5_AudiencesNotInterchangeable ==
    /\ SECRET # REFRESH_SECRET
    /\ \A n \in AccessCalls :
          /\ ~ jwt_decode(calls[n].token, REFRESH_SECRET).ok
          /\ jwt_decode(calls[n].token, REFRESH_SECRET).error
                = "InvalidSignatureError"
          /\ jwt_decode(calls[n].token, REFRESH_SECRET).claims = EmptyDict
    /\ \A n \in RefreshCalls :
          /\ ~ jwt_decode(calls[n].token, SECRET).ok
          /\ jwt_decode(calls[n].token, SECRET).error = "InvalidSignatureError"

\* C5 witness: an access token exists that verifies under the access secret
\* and is rejected under the refresh secret.
C5_Witness ==
    \E n \in AccessCalls :
        /\ jwt_decode(calls[n].token, SECRET).ok
        /\ ~ jwt_decode(calls[n].token, REFRESH_SECRET).ok

C7_ClaimSetShape ==
    /\ \A n \in AccessCalls :
          /\ MandatoryKeys \subseteq DOMAIN calls[n].payload
          /\ DOMAIN calls[n].payload \subseteq MandatoryKeys \cup ScopeKeys
          /\ "jti" \notin DOMAIN calls[n].payload
          /\ calls[n].payload["sub"].tag = "str"
          /\ calls[n].payload["iat"].tag = "int"
          /\ calls[n].payload["exp"].tag = "int"
    /\ \A n \in RefreshCalls :
          /\ "jti" \in DOMAIN calls[n].payload
          /\ \A m \in RefreshCalls :
                m # n => calls[m].payload["jti"] # calls[n].payload["jti"]

\* C7 witness: an access-class claim set with all three scope keys.
C7_Witness ==
    \E n \in AccessCalls :
        DOMAIN calls[n].payload = MandatoryKeys \cup ScopeKeys

\* C8 (the claim as stated): when the token script has ended on a host
\* without PyJWT, it printed the install instruction, exited non-zero, left
\* no traceback, and printed neither main()'s banner nor a token.
C8_ProbeReportsMissingLibrary ==
    (script = "generate_token.py" /\ ~lib_installed /\ exit_status # -1)
        => /\ \E n \in 1..Len(stdout) :
                 stdout[n] = "Install it with: pip install PyJWT"
           /\ exit_status # 0
           /\ stderr = <<>>
           /\ \A n \in 1..Len(stdout) :
                 stdout[n] \notin {"=== JWT Token Generator ===", "   Token:"}

ExpectedSheet ==
    << [c \in 1..18 |-> headers[c]], [c \in 1..18 |-> data_row[c]] >>

\* C9: headers and data row have 18 values each; the sheet's first row is
\* the headers and its second the data row, cell for cell unchanged (the
\* cell under Phone1 is the phone number, under ChatID the chat id, under
\* AddAdmin the last value); every completed run leaves the same file.
C9_FixtureRow ==
    /\ Len(headers) = 18 /\ Len(data_row) = 18
    /\ Len(ws) >= 1 => ws[1] = ExpectedSheet[1]
    /\ Len(ws) >= 2 => ws[2] = ExpectedSheet[2]
    /\ Len(ws) <= 2
    /\ (pc = "print_created" \/ exit_status = 0)
          => /\ tmp_file = [exists |-> TRUE, rows |-> ExpectedSheet]
             /\ tmp_file.rows[1][1] = "Phone1"
             /\ tmp_file.rows[2][1] = "79884753064"
             /\ tmp_file.rows[1][15] = "ChatID"
             /\ tmp_file.rows[2][15] = "-69257108032233"
             /\ tmp_file.rows[1][18] = "AddAdmin"
             /\ tmp_file.rows[2][18] = "ISTINA"

\* C9 witness: a run has completed and written the two-row file.
C9_Witness ==
    /\ script = "create_test_excel.py"
    /\ exit_status = 0
    /\ tmp_file.exists
    /\ Len(tmp_file.rows) = 2

\* C10: every generate_token call returns without raising, whatever the
\* role string; the claim set's role is the string passed and sub is the
\* decimal string of the user id, and the token carries that role.
C10_NoValidation ==
    \A n \in AccessCalls :
        /\ calls[n].raised = ""
        /\ calls[n].payload["role"] = calls[n].args.role
        /\ calls[n].payload["sub"] = PyStr(ToString(calls[n].args.user_id.int))
        /\ json_loads(b64decode(calls[n].token.payload))["role"]
              = calls[n].args.role

\* C10 witness: a call with a role outside the enumeration returned a token
\* carrying that role.
C10_Witness ==
    \E n \in AccessCalls :
        /\ calls[n].args.role = PyStr("guest")
        /\ calls[n].raised = ""
        /\ calls[n].payload["role"] = PyStr("guest")

====
